---- MODULE Spec2Model ----
(***************************************************************************)
(* Model of lc_flask_routes/route.py: the route registrar                  *)
(* (BaseRouteMixin.register_route), the method dispatcher                  *)
(* (BaseRouteMixin.handle_request) and the parameter merger                *)
(* (BaseRouteWithParserMixin.handle_request).                              *)
(*                                                                         *)
(* Three specifications share the variables:                               *)
(*   RegSpec   one call of register_route on a route table,                *)
(*   Spec      one request served by a worker, over every input,           *)
(*   ConcSpec  MaxConcurrent requests served by interleaved workers.       *)
(***************************************************************************)
EXTENDS FiniteSets, Integers, Sequences, TLC

VARIABLES
    ROUTE_MAP,   \* the class's route table handed to register_route
    url_map,     \* the application's routing table (rules, in order added)
    log,         \* records emitted on the module's logger
    regpc,       \* position of the register_route call
    req,         \* per request: position, inputs, invocations, outcome
    heap         \* dict objects: cell -> keyword-binding mapping

vars == <<ROUTE_MAP, url_map, log, regpc, req, heap>>

----------------------------------------------------------------------------
(* Bounds *)

\* longest route table handed to register_route
MaxRoutes == 2

\* requests in flight at once under ConcSpec
MaxConcurrent == 2

----------------------------------------------------------------------------
(* Route registrar: BaseRouteMixin.register_route *)

Paths == {"/", "/index", "/invalid"}

\* keys a route_options dict may carry; "view_func" is the reserved one
OptionKeys == {"endpoint", "view_func"}

\* One (route, route_options) pair of ROUTE_MAP.  rule_error is the host
\* framework's verdict on the pair: TRUE when add_url_rule raises for it.
RouteEntries ==
    [route : Paths, options : SUBSET OptionKeys, rule_error : BOOLEAN]

\* dict keys are unique: no two entries of a table share a route
DistinctRoutes(items) ==
    \A i, j \in 1..Len(items) : i # j => items[i].route # items[j].route

RouteItems ==
    { items \in UNION { [1..n -> RouteEntries] : n \in 0..MaxRoutes } :
        DistinctRoutes(items) }

\* ROUTE_MAP: ClassVar[Optional[RouteMap]] = None
NoRouteMap == [is_none |-> TRUE, items |-> <<>>]

RouteMaps == {NoRouteMap} \cup { [is_none |-> FALSE, items |-> it] : it \in RouteItems }

\* if cls.ROUTE_MAP:  (None and the empty dict are both falsy)
Truthy(route_map) == ~route_map.is_none /\ route_map.items # <<>>

Warning(route, exc) == [level |-> "WARNING", route |-> route, exc |-> exc]

\* app.add_url_rule(route, view_func=cls.handle_request, **route_options):
\* the framework either raises, leaving the routing table as it was, or
\* appends the rule.
AddUrlRule(app, route, view_func, entry) ==
    IF entry.rule_error
    THEN [raised |-> TRUE, exc |-> "Exception", url_map |-> app]
    ELSE [raised |-> FALSE, exc |-> "",
          url_map |-> Append(app, [rule |-> route, view_func |-> view_func,
                                   options |-> entry.options])]

\* A registrar without the try/except: the first failure leaves the loop.
RegisterEntryUnguarded(entry, st) ==
    IF st.raised THEN st
    ELSE IF "view_func" \in entry.options \/ entry.rule_error
         THEN [st EXCEPT !.raised = TRUE]
         ELSE [st EXCEPT !.url_map = AddUrlRule(st.url_map, entry.route,
                                                "handle_request", entry).url_map]

\* The body of the for loop: try / raise KeyError / add_url_rule /
\* except Exception: logger.warning
RegisterEntry(entry, st) ==
    IF "view_func" \in entry.options
    THEN [st EXCEPT !.log = Append(st.log, Warning(entry.route, "KeyError"))]
    ELSE LET res == AddUrlRule(st.url_map, entry.route, "handle_request", entry)
         IN  IF res.raised
             THEN [st EXCEPT !.log = Append(st.log, Warning(entry.route, res.exc))]
             ELSE [st EXCEPT !.url_map = res.url_map]

RECURSIVE RegisterLoop(_, _)
RegisterLoop(items, st) ==
    IF items = <<>> THEN st
    ELSE RegisterLoop(Tail(items), RegisterEntry(Head(items), st))

\* register_route(cls, app): the whole call
RegisterRoute ==
    /\ regpc = "ready"
    /\ LET st0 == [url_map |-> url_map, log |-> log, raised |-> FALSE]
           st  == IF Truthy(ROUTE_MAP) THEN RegisterLoop(ROUTE_MAP.items, st0) ELSE st0
       IN  /\ url_map' = st.url_map
           /\ log' = st.log
           /\ regpc' = IF st.raised THEN "raised" ELSE "returned"
    /\ UNCHANGED <<ROUTE_MAP, req, heap>>

NoRequests == [r \in {} |-> 0]

RegInit ==
    /\ ROUTE_MAP \in RouteMaps
    /\ url_map = <<>>
    /\ log = <<>>
    /\ regpc = "ready"
    /\ req = NoRequests
    /\ heap = NoRequests

RegNext == RegisterRoute

RegSpec == RegInit /\ [][RegNext]_vars

----------------------------------------------------------------------------
(* Values shared by the dispatcher and the parameter merger *)

\* Python's None as a keyword-binding value
None == "<None>"

Keys == {"alias", "team_name"}

EmptyMap == [k \in {} |-> None]

NoExc == [type |-> "", args |-> <<>>]

NoBody == [type |-> "", text |-> "", data |-> EmptyMap]

Html(text) == [type |-> "html", text |-> text, data |-> EmptyMap]

Json(data) == [type |-> "json", text |-> "", data |-> data]

\* a handler's `return body, status`
Return(body, status) ==
    [kind |-> "return", status |-> status, body |-> body, exc |-> NoExc]

\* flask.abort(code): the request ends with that HTTP status
Abort(code) ==
    [kind |-> "abort", status |-> code, body |-> NoBody, exc |-> NoExc]

\* an exception leaving handle_request for the framework's fault handling
Raise(exc) ==
    [kind |-> "raise", status |-> 0, body |-> NoBody, exc |-> exc]

NoOutcome == [kind |-> "", status |-> 0, body |-> NoBody, exc |-> NoExc]

----------------------------------------------------------------------------
(* Route classes *)

\* HTTP methods a request may carry (request.method is upper case); the last
\* one is a verb whose lower-cased name is an attribute that is no handler.
Methods == {"GET", "POST", "PUT", "DELETE", "PATCH", "REGISTER_ROUTE"}

\* request.method.lower()
Lower(m) ==
    CASE m = "GET" -> "get"
      [] m = "POST" -> "post"
      [] m = "PUT" -> "put"
      [] m = "DELETE" -> "delete"
      [] m = "PATCH" -> "patch"
      [] m = "REGISTER_ROUTE" -> "register_route"
      [] OTHER -> m

\* A route class: the mixin it derives from, the handlers it defines itself
\* (name -> body) and whether its gen_request_parser returns a parser.
\* PatchRoute is a subclass adding a handler for a verb the mixin lacks.
RouteClasses ==
    {"BaseRoute", "IndexRoute", "PatchRoute", "NoParserNoVRRoute", "WithParserNoVRRoute"}

ClassDef(cls) ==
    CASE cls = "BaseRoute" ->
           [base |-> "BaseRouteMixin", handlers |-> EmptyMap, parser |-> FALSE]
      [] cls = "IndexRoute" ->
           [base |-> "BaseRouteMixin", handlers |-> ("get" :> "splash"), parser |-> FALSE]
      [] cls = "PatchRoute" ->
           [base |-> "BaseRouteMixin", handlers |-> ("patch" :> "echo"), parser |-> FALSE]
      [] cls = "NoParserNoVRRoute" ->
           [base |-> "BaseRouteWithParserMixin", handlers |-> ("get" :> "echo"),
            parser |-> FALSE]
      [] cls = "WithParserNoVRRoute" ->
           [base |-> "BaseRouteWithParserMixin",
            handlers |-> ("get" :> "echo") @@ ("post" :> "echo") @@ ("delete" :> "echo"),
            parser |-> TRUE]

\* the per-verb handlers BaseRouteMixin defines
DefaultVerbs == {"get", "post", "put", "delete"}

\* the other attributes a route class inherits from its mixin
MixinAttrs(base) ==
    {"register_route", "handle_request"}
        \cup (IF base = "BaseRouteWithParserMixin" THEN {"gen_request_parser"} ELSE {})

\* hasattr(cls, name): any attribute of the class or of its bases
HasAttr(cls, name) ==
    \/ name \in DOMAIN ClassDef(cls).handlers
    \/ name \in DefaultVerbs
    \/ name \in MixinAttrs(ClassDef(cls).base)

\* getattr(cls, name): the class's own definition first, then the mixin's
GetAttr(cls, name) ==
    IF name \in DOMAIN ClassDef(cls).handlers
    THEN [kind |-> "handler", owner |-> cls, name |-> name,
          body |-> ClassDef(cls).handlers[name]]
    ELSE IF name \in DefaultVerbs
    THEN [kind |-> "handler", owner |-> "BaseRouteMixin", name |-> name,
          body |-> "default"]
    ELSE [kind |-> "classmethod", owner |-> ClassDef(cls).base, name |-> name,
          body |-> ""]

\* whether the name resolves to a per-verb handler function
IsHandler(cls, name) == HasAttr(cls, name) /\ GetAttr(cls, name).kind = "handler"

\* Default handlers that answer instead of refusing
DefaultHandlerOk(name, args) == Return(NoBody, 200)

\* BaseRouteMixin.get / post / put / delete: flask.abort(405)
DefaultHandler(name, args) == Abort(405)

\* the handlers of the route classes above
ClassHandler(body, args) ==
    CASE body = "splash" -> Return(Html("<h1>Splash Page</h1>"), 200)
      [] body = "echo" -> Return(Json(args.route_kwargs), 200)

\* attr(app, request, session, route_kwargs)
Call(attr, args) ==
    IF attr.kind = "handler"
    THEN IF attr.body = "default" THEN DefaultHandler(attr.name, args)
         ELSE ClassHandler(attr.body, args)
    ELSE \* a classmethod taking other parameters: the call does not bind
         Raise([type |-> "TypeError", args |-> <<>>])

\* flask.current_app, flask.request, flask.session of request r, and the
\* keyword bindings, as the four positional arguments
HandlerArgs(r, route_kwargs) ==
    [app |-> "current_app", request |-> r, session |-> r, route_kwargs |-> route_kwargs]

\* A dispatcher that skips the hasattr guard and the lookup by name
BaseHandleRequestGet(cls, method, route_kwargs, r) ==
    LET attr == GetAttr(cls, "get")
        args == HandlerArgs(r, route_kwargs)
    IN  [outcome |-> Call(attr, args),
         invoked |-> <<[owner |-> attr.owner, name |-> attr.name, args |-> args]>>]

\* BaseRouteMixin.handle_request(cls, **route_kwargs): the outcome and the
\* handler invocations it makes
BaseHandleRequest(cls, method, route_kwargs, r) ==
    LET request_method == Lower(method)
    IN  IF ~HasAttr(cls, request_method)
        THEN [outcome |-> Abort(405), invoked |-> <<>>]
        ELSE LET attr == GetAttr(cls, request_method)
                 args == HandlerArgs(r, route_kwargs)
             IN  [outcome |-> Call(attr, args),
                  invoked |-> IF attr.kind = "handler"
                              THEN <<[owner |-> attr.owner, name |-> attr.name,
                                      args |-> args]>>
                              ELSE <<>>]

----------------------------------------------------------------------------
(* The request parser, as the merger sees it *)

\* message texts, as sequences of words
ValidationPrefix == <<"Failed", "to", "parse", "provided", "arguments">>

ValidationMsg == ValidationPrefix \o <<"(", "invalid", "int", "value", ")">>

ContextMsg == <<"Working", "outside", "of", "request", "context">>

TruncatedMsg == <<"Failed", "to", "parse">>

Str(words) == [type |-> "str", v |-> words]

NonStr(words) == [type |-> "int", v |-> words]

\* str.startswith
StartsWith(s, prefix) ==
    Len(s) >= Len(prefix) /\ SubSeq(s, 1, Len(prefix)) = prefix

RuntimeErrors ==
    { [type |-> "RuntimeError", args |-> a] :
        a \in { <<>>,
                <<NonStr(<<"400">>)>>,
                <<Str(ValidationMsg)>>,
                <<Str(ContextMsg)>>,
                <<Str(TruncatedMsg)>>,
                <<Str(ContextMsg), Str(ValidationMsg)>> } }

ValidationError == [type |-> "RuntimeError", args |-> <<Str(ValidationMsg)>>]

ContentTypeError == [type |-> "TypeError", args |-> <<Str(<<"mimetype">>)>>]

OtherError == [type |-> "ValueError", args |-> <<>>]

\* Namespaces a successful parse may return: every declared argument is an
\* attribute, None when the request does not carry it
Namespaces ==
    { ("team_name" :> "FC Milan") @@ ("alias" :> None),
      ("alias" :> "Blaugrana") }

Parsed(ns) == [kind |-> "ok", args |-> ns, exc |-> NoExc]

Failed(exc) == [kind |-> "raise", args |-> EmptyMap, exc |-> exc]

NotParsed == [kind |-> "none", args |-> EmptyMap, exc |-> NoExc]

Mimetypes == {"application/json", "text/xml"}

\* parser.parse_args() on the current request: what the parser may answer.
\* A POST or PUT body that is not JSON is refused, as a content-type error
\* or as a validation error; any other request may parse or fail any way.
ParseArgs(method, mimetype) ==
    IF method \in {"POST", "PUT"} /\ mimetype # "application/json"
    THEN {Failed(ContentTypeError), Failed(ValidationError)}
    ELSE { Parsed(ns) : ns \in Namespaces }
            \cup { Failed(e) : e \in RuntimeErrors \cup {ContentTypeError, OtherError} }

\* cls.gen_request_parser(): a parser, or None
GenRequestParser(cls) == ClassDef(cls).parser

----------------------------------------------------------------------------
(* Parameter merger: BaseRouteWithParserMixin.handle_request *)

\* A gate that lets the parser run for every HTTP method
EngagesParserAnyMethod(cls, method) == GenRequestParser(cls)

\* if parser and request_method in {"GET", "POST", "PUT"}
EngagesParser(cls, method) ==
    GenRequestParser(cls) /\ method \in {"GET", "POST", "PUT"}

\* exc.args and isinstance(exc.args[0], str) and exc.args[0].startswith(...)
IsValidationError(exc) ==
    /\ exc.args # <<>>
    /\ exc.args[1].type = "str"
    /\ StartsWith(exc.args[1].v, ValidationPrefix)

\* A merger whose except clauses swallow the parser's error
OnParseErrorSwallow(exc) == [state |-> "DISPATCH", outcome |-> NoOutcome]

\* A merger that answers every RuntimeError with 400
OnParseErrorAll400(exc) ==
    CASE exc.type = "TypeError" -> [state |-> "REJECT_415", outcome |-> Abort(415)]
      [] exc.type = "RuntimeError" -> [state |-> "REJECT_400", outcome |-> Abort(400)]
      [] OTHER -> [state |-> "PROPAGATE_ERROR", outcome |-> Raise(exc)]

\* the except clauses around parser.parse_args()
OnParseError(exc) ==
    CASE exc.type = "TypeError" -> [state |-> "REJECT_415", outcome |-> Abort(415)]
      [] exc.type = "RuntimeError" ->
           IF IsValidationError(exc)
           THEN [state |-> "REJECT_400", outcome |-> Abort(400)]
           ELSE [state |-> "PROPAGATE_ERROR", outcome |-> Raise(exc)]
      [] OTHER -> [state |-> "PROPAGATE_ERROR", outcome |-> Raise(exc)]

\* the order in which Namespace._get_kwargs lists the attributes (sorted)
KeyOrder == <<"alias", "team_name">>

\* args._get_kwargs(): the (name, value) pairs of the namespace
GetKwargs(ns) ==
    LET Present(k) == k \in DOMAIN ns
        names == SelectSeq(KeyOrder, Present)
    IN  [i \in 1..Len(names) |-> <<names[i], ns[names[i]]>>]

\* dict(pairs): later pairs replace earlier ones of the same key
RECURSIVE Dict(_)
Dict(pairs) ==
    IF pairs = <<>> THEN EmptyMap
    ELSE LET last == pairs[Len(pairs)]
             rest == Dict(SubSeq(pairs, 1, Len(pairs) - 1))
         IN  [k \in DOMAIN rest \cup {last[1]} |->
                 IF k = last[1] THEN last[2] ELSE rest[k]]

\* An update in which the keys already bound keep their value
DictUpdateKeep(d, other) ==
    [k \in DOMAIN d \cup DOMAIN other |-> IF k \in DOMAIN d THEN d[k] ELSE other[k]]

\* d.update(other)
DictUpdate(d, other) ==
    [k \in DOMAIN d \cup DOMAIN other |-> IF k \in DOMAIN other THEN other[k] ELSE d[k]]

\* One dict shared by every call
KwargsCellShared(r) == 1

\* **route_kwargs: each call of handle_request binds a dict of its own
KwargsCell(r) == r

----------------------------------------------------------------------------
(* Requests *)

UrlBindings == {EmptyMap, ("team_name" :> "FC Barcelona")}

\* what the framework hands over with a matched request
Inputs == [cls : RouteClasses, method : Methods, mimetype : Mimetypes, url : UrlBindings]

\* the requests served concurrently under ConcSpec
ConcInputs ==
    [cls : {"NoParserNoVRRoute", "WithParserNoVRRoute"}, method : {"GET", "DELETE", "PATCH"},
     mimetype : {"application/json"}, url : UrlBindings]

Idle ==
    [state |-> "IDLE", cls |-> "", method |-> "", mimetype |-> "", url |-> EmptyMap,
     parsed |-> NotParsed, parse_calls |-> 0, invoked |-> <<>>, outcome |-> NoOutcome]

\* The framework matches a request and calls the view function with the
\* URL variable bindings as keyword arguments.
Receive(r, in) ==
    /\ req[r].state = "IDLE"
    /\ req' = [req EXCEPT ![r] = [Idle EXCEPT !.state = "RECEIVED", !.cls = in.cls,
                                              !.method = in.method,
                                              !.mimetype = in.mimetype,
                                              !.url = in.url]]
    /\ heap' = [heap EXCEPT ![KwargsCell(r)] = in.url]
    /\ UNCHANGED <<ROUTE_MAP, url_map, log, regpc>>

\* A merger that hands the call to the dispatcher before it parses
EnterDispatchFirst(r) ==
    /\ req[r].state = "RECEIVED"
    /\ req' = [req EXCEPT ![r].state = "DISPATCH"]
    /\ UNCHANGED <<ROUTE_MAP, url_map, log, regpc, heap>>

\* handle_request up to the parser gate; BaseRouteMixin's own handle_request
\* has no gate and is the dispatcher itself
Enter(r) ==
    /\ req[r].state = "RECEIVED"
    /\ req' = [req EXCEPT ![r].state =
                 IF /\ ClassDef(req[r].cls).base = "BaseRouteWithParserMixin"
                    /\ EngagesParser(req[r].cls, req[r].method)
                 THEN "PARSING" ELSE "DISPATCH"]
    /\ UNCHANGED <<ROUTE_MAP, url_map, log, regpc, heap>>

\* args, _ = parser.parse_args() and the except clauses
Parse(r) ==
    /\ req[r].state = "PARSING"
    /\ \E res \in ParseArgs(req[r].method, req[r].mimetype) :
          LET next == IF res.kind = "ok"
                      THEN [state |-> "MERGE_AND_DISPATCH", outcome |-> NoOutcome]
                      ELSE OnParseError(res.exc)
          IN  req' = [req EXCEPT ![r].state = next.state,
                                 ![r].outcome = next.outcome,
                                 ![r].parsed = res,
                                 ![r].parse_calls = @ + 1]
    /\ UNCHANGED <<ROUTE_MAP, url_map, log, regpc, heap>>

\* route_kwargs.update(dict(args._get_kwargs())), then super().handle_request
Merge(r) ==
    /\ req[r].state = "MERGE_AND_DISPATCH"
    /\ heap' = [heap EXCEPT ![KwargsCell(r)] =
                   DictUpdate(@, Dict(GetKwargs(req[r].parsed.args)))]
    /\ req' = [req EXCEPT ![r].state = "DISPATCH"]
    /\ UNCHANGED <<ROUTE_MAP, url_map, log, regpc>>

\* A dispatcher whose 405 does not end the call: control goes on to the
\* lookup of the missing attribute, which raises
DispatchFallsThrough(r) ==
    /\ req[r].state \in {"DISPATCH", "REJECT_405"}
    /\ LET res == BaseHandleRequest(req[r].cls, req[r].method, heap[KwargsCell(r)], r)
       IN  req' = [req EXCEPT
                     ![r].outcome =
                         IF req[r].state = "REJECT_405"
                         THEN Raise([type |-> "AttributeError", args |-> <<>>])
                         ELSE res.outcome,
                     ![r].invoked = @ \o res.invoked,
                     ![r].state =
                         IF req[r].state = "REJECT_405" THEN "PROPAGATE_ERROR"
                         ELSE IF res.invoked # <<>> THEN "HANDLED"
                         ELSE IF res.outcome.kind = "abort" THEN "REJECT_405"
                         ELSE "PROPAGATE_ERROR"]
    /\ UNCHANGED <<ROUTE_MAP, url_map, log, regpc, heap>>

\* BaseRouteMixin.handle_request with the keyword bindings of this call.
\* It ends HANDLED when a handler ran, REJECT_405 when the guard aborted and
\* PROPAGATE_ERROR when the call of the attribute raised.
Dispatch(r) ==
    /\ req[r].state = "DISPATCH"
    /\ LET res == BaseHandleRequest(req[r].cls, req[r].method, heap[KwargsCell(r)], r)
       IN  req' = [req EXCEPT
                     ![r].outcome = res.outcome,
                     ![r].invoked = @ \o res.invoked,
                     ![r].state =
                         IF res.invoked # <<>> THEN "HANDLED"
                         ELSE IF res.outcome.kind = "abort" THEN "REJECT_405"
                         ELSE "PROPAGATE_ERROR"]
    /\ UNCHANGED <<ROUTE_MAP, url_map, log, regpc, heap>>

\* IndexRoute.ROUTE_MAP, the table registered before requests are served
IndexRouteMap ==
    [is_none |-> FALSE,
     items |-> << [route |-> "/", options |-> {"endpoint"}, rule_error |-> FALSE],
                  [route |-> "/index", options |-> {"endpoint"}, rule_error |-> FALSE] >>]

\* the application after startup: routes registered, n workers, no request
ReqInit(n) ==
    /\ ROUTE_MAP = IndexRouteMap
    /\ url_map = RegisterLoop(IndexRouteMap.items,
                              [url_map |-> <<>>, log |-> <<>>, raised |-> FALSE]).url_map
    /\ log = <<>>
    /\ regpc = "returned"
    /\ req = [r \in 1..n |-> Idle]
    /\ heap = [c \in 1..n |-> EmptyMap]

Init == ReqInit(1)

Arrive == \E r \in DOMAIN req : \E in \in Inputs : Receive(r, in)

EnterStep == \E r \in DOMAIN req : Enter(r)

ParseStep == \E r \in DOMAIN req : Parse(r)

MergeStep == \E r \in DOMAIN req : Merge(r)

DispatchStep == \E r \in DOMAIN req : Dispatch(r)

Next == Arrive \/ EnterStep \/ ParseStep \/ MergeStep \/ DispatchStep

Spec == Init /\ [][Next]_vars

ConcInit == ReqInit(MaxConcurrent)

ConcArrive == \E r \in DOMAIN req : \E in \in ConcInputs : Receive(r, in)

ConcNext == ConcArrive \/ EnterStep \/ ParseStep \/ MergeStep \/ DispatchStep

ConcSpec == ConcInit /\ [][ConcNext]_vars

----------------------------------------------------------------------------
(* Properties *)

Finished == {"HANDLED", "REJECT_405", "REJECT_400", "REJECT_415", "PROPAGATE_ERROR"}

Done(r) == req[r].state \in Finished

\* the request went through BaseRouteMixin.handle_request
Dispatched(r) == Done(r) /\ req[r].parsed.kind # "raise"

Fails(e) == "view_func" \in e.options \/ e.rule_error

Registers(e) == ~Fails(e)

HasReservedKey(e) == "view_func" \in e.options

\* the entries register_route iterates over
TableItems == IF Truthy(ROUTE_MAP) THEN ROUTE_MAP.items ELSE <<>>

\* C1: register_route never raises; on return the routing table holds
\* exactly the non-failing entries, in table order, each with handle_request
\* as its handler, and the log holds exactly one warning per failing entry,
\* naming its path. With N entries of which exactly one fails, and that one
\* by the reserved key, N-1 rules are registered and one warning is logged.
C1_FailureIsolation ==
    /\ regpc # "raised"
    /\ regpc = "returned" =>
         LET good == SelectSeq(TableItems, Registers)
             bad  == SelectSeq(TableItems, Fails)
         IN  /\ Len(url_map) = Len(good)
             /\ \A i \in 1..Len(good) :
                   /\ url_map[i].rule = good[i].route
                   /\ url_map[i].view_func = "handle_request"
             /\ Len(log) = Len(bad)
             /\ \A i \in 1..Len(bad) :
                   /\ log[i].level = "WARNING"
                   /\ log[i].route = bad[i].route
             /\ (Len(bad) = 1 /\ HasReservedKey(bad[1])) =>
                   /\ Len(url_map) = Len(TableItems) - 1
                   /\ Len(log) = 1

\* a two-entry table whose first entry carries the reserved key: the second
\* entry is registered and one warning names the first
C1_Witness ==
    /\ regpc = "returned"
    /\ Len(TableItems) = 2
    /\ HasReservedKey(TableItems[1])
    /\ Registers(TableItems[2])
    /\ Len(url_map) = 1
    /\ url_map[1].rule = TableItems[2].route
    /\ Len(log) = 1
    /\ log[1].route = TableItems[1].route

\* C2: a request that reaches the dispatcher with a method whose lower-cased
\* name is no handler function of the route class ends with 405 and no
\* function of the class is invoked.
C2_NoHandlerIs405 ==
    \A r \in DOMAIN req :
        (Dispatched(r) /\ ~IsHandler(req[r].cls, Lower(req[r].method))) =>
            /\ req[r].outcome = Abort(405)
            /\ req[r].invoked = <<>>

\* the handler a name resolves to: the class's own, else the mixin's default
OwnerOf(cls, name) ==
    IF name \in DOMAIN ClassDef(cls).handlers THEN cls ELSE "BaseRouteMixin"

\* C3: a request whose lower-cased method names a handler has exactly that
\* handler invoked exactly once, with the application handle, the request,
\* the session and the call's keyword bindings, and ends with the handler's
\* result unchanged; IndexRoute's get yields ("<h1>Splash Page</h1>", 200).
C3_DispatchToHandler ==
    \A r \in DOMAIN req :
        (Dispatched(r) /\ IsHandler(req[r].cls, Lower(req[r].method))) =>
            /\ Len(req[r].invoked) = 1
            /\ req[r].invoked[1].name = Lower(req[r].method)
            /\ req[r].invoked[1].owner = OwnerOf(req[r].cls, Lower(req[r].method))
            /\ req[r].invoked[1].args.app = "current_app"
            /\ req[r].invoked[1].args.request = r
            /\ req[r].invoked[1].args.session = r
            /\ req[r].invoked[1].args.route_kwargs = heap[KwargsCell(r)]
            /\ DOMAIN req[r].url \subseteq DOMAIN req[r].invoked[1].args.route_kwargs
            /\ req[r].outcome =
                   Call(GetAttr(req[r].cls, Lower(req[r].method)), req[r].invoked[1].args)
            /\ (req[r].cls = "IndexRoute" /\ req[r].method = "GET") =>
                   /\ req[r].outcome.kind = "return"
                   /\ req[r].outcome.status = 200
                   /\ req[r].outcome.body = Html("<h1>Splash Page</h1>")

C3_Witness ==
    \E r \in DOMAIN req :
        /\ req[r].state = "HANDLED"
        /\ req[r].cls = "IndexRoute"
        /\ req[r].method = "GET"
        /\ req[r].outcome.status = 200
        /\ Len(req[r].invoked) = 1

\* the parser was run on request r and raised
ParseFailed(r) == req[r].parsed.kind = "raise"

\* C4: when the parser raises, the method handler is never invoked and the
\* outcome is one of three: a TypeError ends with 415; a RuntimeError whose
\* first argument is a string starting with "Failed to parse provided
\* arguments" ends with 400; a RuntimeError with no arguments, a non-string
\* first argument or another message leaves handle_request unchanged.
C4_ParserFailureThreeWay ==
    \A r \in DOMAIN req :
        ParseFailed(r) =>
            LET exc == req[r].parsed.exc
            IN  /\ req[r].invoked = <<>>
                /\ req[r].parse_calls = 1
                /\ GenRequestParser(req[r].cls)
                /\ req[r].method \in {"GET", "POST", "PUT"}
                /\ exc.type = "TypeError" =>
                      req[r].state = "REJECT_415" /\ req[r].outcome = Abort(415)
                /\ (exc.type = "RuntimeError" /\ exc.args = <<Str(ValidationMsg)>>) =>
                      req[r].state = "REJECT_400" /\ req[r].outcome = Abort(400)
                /\ (exc.type = "RuntimeError" /\
                    exc.args \in { <<>>, <<NonStr(<<"400">>)>>, <<Str(ContextMsg)>>,
                                   <<Str(TruncatedMsg)>>,
                                   <<Str(ContextMsg), Str(ValidationMsg)>> }) =>
                      /\ req[r].state = "PROPAGATE_ERROR"
                      /\ req[r].outcome.kind = "raise"
                      /\ req[r].outcome.exc = exc
                /\ exc.type \in {"TypeError", "RuntimeError"} =>
                      req[r].state \in {"REJECT_415", "REJECT_400", "PROPAGATE_ERROR"}

\* a RuntimeError whose message has the prefix only in its second argument
\* is propagated, with no handler invoked
C4_Witness ==
    \E r \in DOMAIN req :
        /\ req[r].state = "PROPAGATE_ERROR"
        /\ req[r].parsed.exc.type = "RuntimeError"
        /\ req[r].parsed.exc.args = <<Str(ContextMsg), Str(ValidationMsg)>>
        /\ req[r].outcome = Raise(req[r].parsed.exc)
        /\ req[r].invoked = <<>>

\* the parser was run on request r and returned a namespace
ParseSucceeded(r) == req[r].parsed.kind = "ok"

\* C5: after a successful parse the handler receives the URL-derived
\* bindings overlaid with the parsed pairs: every parsed key with its parsed
\* value (None included), a key bound by both with the parsed value, a key
\* bound by the URL alone with its URL value, and no other key.
C5_MergedBindings ==
    \A r \in DOMAIN req :
        (ParseSucceeded(r) /\ Done(r)) =>
            /\ Len(req[r].invoked) = 1
            /\ LET kw == req[r].invoked[1].args.route_kwargs
                   ns == req[r].parsed.args
               IN  /\ DOMAIN kw = DOMAIN req[r].url \cup DOMAIN ns
                   /\ \A k \in DOMAIN ns : kw[k] = ns[k]
                   /\ \A k \in DOMAIN req[r].url \ DOMAIN ns : kw[k] = req[r].url[k]

\* /team/FC Barcelona?team_name=FC Milan: the handler sees FC Milan and the
\* undeclared alias as None
C5_Witness ==
    \E r \in DOMAIN req :
        /\ req[r].state = "HANDLED"
        /\ req[r].url = ("team_name" :> "FC Barcelona")
        /\ ParseSucceeded(r)
        /\ req[r].invoked[1].args.route_kwargs =
               ("team_name" :> "FC Milan") @@ ("alias" :> None)

\* request r is served by the parameter merger without engaging the parser
Bypasses(r) ==
    /\ ClassDef(req[r].cls).base = "BaseRouteWithParserMixin"
    /\ \/ ~GenRequestParser(req[r].cls)
       \/ req[r].method \notin {"GET", "POST", "PUT"}

\* C6: with no parser, or a method other than GET, POST, PUT, parse_args is
\* never called, the handler receives exactly the URL-derived bindings, and
\* outcome and invocations are those of BaseRouteMixin.handle_request on the
\* same request.
C6_BypassIsBaseDispatch ==
    \A r \in DOMAIN req :
        (req[r].state # "IDLE" /\ Bypasses(r)) =>
            /\ req[r].parse_calls = 0
            /\ req[r].parsed = NotParsed
            /\ req[r].state \in {"RECEIVED", "DISPATCH"} \cup Finished
            /\ Done(r) =>
                 LET base == BaseHandleRequest(req[r].cls, req[r].method, req[r].url, r)
                 IN  /\ req[r].outcome = base.outcome
                     /\ req[r].invoked = base.invoked
                     /\ \A i \in 1..Len(req[r].invoked) :
                           req[r].invoked[i].args.route_kwargs = req[r].url

\* DELETE on the parser-equipped route: the handler echoes the URL bindings
C6_Witness ==
    \E r \in DOMAIN req :
        /\ req[r].state = "HANDLED"
        /\ req[r].cls = "WithParserNoVRRoute"
        /\ req[r].method = "DELETE"
        /\ req[r].parse_calls = 0
        /\ req[r].outcome = Return(Json(req[r].url), 200)

\* C7 as stated: every state but RECEIVED, PARSING and DISPATCH is terminal
C7_TerminalExceptThree ==
    [][\A r \in DOMAIN req :
          req[r].state \in {"MERGE_AND_DISPATCH", "REJECT_415", "REJECT_400",
                            "PROPAGATE_ERROR", "HANDLED", "REJECT_405"}
              => req'[r].state = req[r].state]_vars

\* C7 amended: every state but RECEIVED, PARSING, MERGE_AND_DISPATCH and
\* DISPATCH is terminal, and MERGE_AND_DISPATCH is followed by DISPATCH only.
C7_TerminalExceptFour ==
    [][\A r \in DOMAIN req :
          /\ req[r].state \in {"REJECT_415", "REJECT_400", "PROPAGATE_ERROR",
                               "HANDLED", "REJECT_405"}
                => req'[r] = req[r]
          /\ req[r].state = "MERGE_AND_DISPATCH"
                => req'[r].state \in {"MERGE_AND_DISPATCH", "DISPATCH"}]_vars

\* a request that was merged and then handled: MERGE_AND_DISPATCH had a
\* successor
C7_Witness ==
    \E r \in DOMAIN req :
        /\ req[r].state \in {"HANDLED", "REJECT_405"}
        /\ ParseSucceeded(r)

OwnBindings(r) ==
    IF ParseSucceeded(r)
    THEN [k \in DOMAIN req[r].url \cup DOMAIN req[r].parsed.args |->
             IF k \in DOMAIN req[r].parsed.args
             THEN req[r].parsed.args[k] ELSE req[r].url[k]]
    ELSE req[r].url

\* C9: under every interleaving of concurrent requests through one route
\* class, each handler receives bindings built from its own request's URL
\* bindings and parsed arguments only, and each request ends as it would
\* alone: with the parser's mapped error, or with the dispatcher's outcome
\* on its own bindings.
C9_ConcurrentIsolation ==
    \A r \in DOMAIN req :
        /\ \A i \in 1..Len(req[r].invoked) :
              /\ req[r].invoked[i].args.route_kwargs = OwnBindings(r)
              /\ req[r].invoked[i].args.request = r
        /\ Done(r) =>
              IF ParseFailed(r)
              THEN /\ req[r].invoked = <<>>
                   /\ req[r].outcome = OnParseError(req[r].parsed.exc).outcome
              ELSE LET alone == BaseHandleRequest(req[r].cls, req[r].method,
                                                  OwnBindings(r), r)
                   IN  /\ req[r].outcome = alone.outcome
                       /\ req[r].invoked = alone.invoked

\* two requests in flight at once, with different URL bindings and different
\* parsed arguments: one handled with its own merged bindings while the
\* other, already merged, waits for the dispatcher
C9_Witness ==
    \E r1, r2 \in DOMAIN req :
        /\ r1 # r2
        /\ req[r1].state = "HANDLED"
        /\ req[r2].state = "DISPATCH"
        /\ ParseSucceeded(r1) /\ ParseSucceeded(r2)
        /\ req[r1].url # req[r2].url
        /\ req[r1].parsed.args # req[r2].parsed.args
        /\ req[r1].outcome = Return(Json(OwnBindings(r1)), 200)
        /\ heap[KwargsCell(r2)] = OwnBindings(r2)

\* C10: a request for GET, POST, PUT or DELETE to a class that does not
\* override the handler runs BaseRouteMixin's default and ends with 405; a
\* class that overrides it has its own handler run instead; and a class that
\* defines patch has it found and run for PATCH, its result being the
\* request's outcome.
C10_DefaultsAndExtraVerbs ==
    \A r \in DOMAIN req :
        Dispatched(r) =>
            LET name == Lower(req[r].method)
                own  == DOMAIN ClassDef(req[r].cls).handlers
            IN  /\ (name \in DefaultVerbs /\ name \notin own) =>
                      /\ req[r].outcome = Abort(405)
                      /\ Len(req[r].invoked) = 1
                      /\ req[r].invoked[1].owner = "BaseRouteMixin"
                      /\ req[r].invoked[1].name = name
                /\ (name \in DefaultVerbs /\ name \in own) =>
                      /\ Len(req[r].invoked) = 1
                      /\ req[r].invoked[1].owner = req[r].cls
                      /\ req[r].outcome.kind = "return"
                /\ (name = "patch" /\ name \in own) =>
                      /\ req[r].state = "HANDLED"
                      /\ Len(req[r].invoked) = 1
                      /\ req[r].invoked[1].owner = req[r].cls
                      /\ req[r].invoked[1].name = "patch"
                      /\ req[r].outcome = Return(Json(req[r].url), 200)

\* PUT on IndexRoute, which overrides get only: the default put runs, 405
C10_Witness ==
    \E r \in DOMAIN req :
        /\ req[r].state = "HANDLED"
        /\ req[r].cls = "IndexRoute"
        /\ req[r].method = "PUT"
        /\ req[r].invoked[1].owner = "BaseRouteMixin"
        /\ req[r].outcome = Abort(405)

\* request r is one the parameter merger parses: a class of the parser mixin
\* whose hook returns a parser, and a method among GET, POST, PUT
Engaged(r) ==
    /\ req[r].state # "IDLE"
    /\ ClassDef(req[r].cls).base = "BaseRouteWithParserMixin"
    /\ GenRequestParser(req[r].cls)
    /\ req[r].method \in {"GET", "POST", "PUT"}

\* C11: for a request the merger parses, the dispatcher is entered only
\* with the parser's answer known to be a success and the merge done: in
\* DISPATCH and after it parse_args was called once, returned a namespace,
\* and the call's bindings are the merged ones. A failing parse ends with
\* 400, 415 or the propagated error, never 405, with nothing looked up or
\* invoked; an outcome of 405 (the default handler of a method the class
\* does not override) occurs only after a successful parse and merge.
C11_ParseBeforeLookup ==
    \A r \in DOMAIN req :
        Engaged(r) =>
            /\ req[r].state \in {"DISPATCH", "HANDLED", "REJECT_405"} =>
                  /\ req[r].parse_calls = 1
                  /\ ParseSucceeded(r)
                  /\ heap[KwargsCell(r)] = OwnBindings(r)
            /\ req[r].invoked # <<>> =>
                  /\ ParseSucceeded(r)
                  /\ req[r].invoked[1].args.route_kwargs = OwnBindings(r)
            /\ ParseFailed(r) =>
                  /\ req[r].state \in {"REJECT_400", "REJECT_415", "PROPAGATE_ERROR"}
                  /\ req[r].outcome.status # 405
                  /\ req[r].outcome \in {Abort(400), Abort(415), Raise(req[r].parsed.exc)}
                  /\ req[r].invoked = <<>>
            /\ req[r].outcome.status = 405 =>
                  /\ ParseSucceeded(r)
                  /\ Len(req[r].invoked) = 1
                  /\ \A k \in DOMAIN req[r].parsed.args :
                        req[r].invoked[1].args.route_kwargs[k] = req[r].parsed.args[k]
            /\ (req[r].state \in {"RECEIVED", "PARSING"}) =>
                  req[r].parsed = NotParsed /\ req[r].invoked = <<>>

\* PUT on the parser-equipped route, which does not override put: a failing
\* parse ends with 415 and the default handler's 405 is never produced
C11_Witness ==
    \E r \in DOMAIN req :
        /\ req[r].cls = "WithParserNoVRRoute"
        /\ req[r].method = "PUT"
        /\ "put" \notin DOMAIN ClassDef(req[r].cls).handlers
        /\ ParseFailed(r)
        /\ req[r].state = "REJECT_415"
        /\ req[r].outcome = Abort(415)
        /\ req[r].invoked = <<>>

====
